---- MODULE Spec2Model ----
(***************************************************************************)
(* Tiled cell segmentation (src/main.py): tile scheduler, detection       *)
(* filter, checkpoint store, aggregation, non-max suppression and canvas  *)
(* compositing, plus the lock wrapper of the parallel mode.               *)
(*                                                                         *)
(* Units.  Box coordinates are floats in the source; here they are        *)
(* integers counting half pixels, so that int() and .type(torch.int)      *)
(* (truncation) are modelled by what they do.  Scores, mask probabilities *)
(* and the thresholds are integers counting hundredths.                   *)
(***************************************************************************)
EXTENDS Integers, Sequences, FiniteSets, TLC

\* ------------------------------------------------------------ bounds
\* scheduler sweep: image sides 1..MaxDim, tile sides 1..MaxTile, strides 1..MaxStride
MaxDim == 5
MaxTile == 4
MaxStride == 3
\* pipeline runs on one output directory
MaxRuns == 2
\* pipeline: tile side, and how far the image may exceed it on each axis
TileSide == 12
MaxPad == 1
\* pipeline: stride of the rolling window
Stride == 2
\* parallel mode: number of tile workers
NWorkers == 3

\* ------------------------------------------------------------ program constants
\* argparse defaults, in hundredths
ThresNms == 10
ThresPrediction == 60
ThresMask == 95
ThresSize == 30
\* literals of filter_tile
MinBoxArea == 30
MinMaskSum == 30

VARIABLES
    shape,          \* tiff.shape = <<H, W>>
    tile_size,      \* args.tile_size
    rolling_window, \* args.rolling_window
    scene,          \* what the image of the current run shows (decides model(x))
    step1,          \* the directory args.output/step1: [exists, files: counter -> record]
    pc,             \* position of the run inside __main__ / pipeline
    i, j,           \* loop variables of tile_extraction_part
    counter,        \* counter of tile_extraction_part
    tiles,          \* origins <<row, col>> cropped so far in this run, in order
    saved,          \* file names written by this run
    res,            \* result of the last filter_tile call of this run, with its origin
    runs,           \* runs started so far
    err,            \* exception that ended the run, "none" if none
    listed,         \* file names os.listdir returned to load_all_steps, in order
    output,         \* dict of pipeline(): boxes, scores, masks
    final,          \* the canvas
    wpc,            \* parallel mode: position of each worker
    wlock,          \* parallel mode: needs_lock of each worker
    lock            \* parallel mode: state of the module-level threading.Lock

vars == <<shape, tile_size, rolling_window, scene, step1, pc, i, j, counter, tiles,
          saved, res, runs, err, listed, output, final, wpc, wlock, lock>>

pipeVars == <<shape, tile_size, rolling_window, scene, step1, pc, i, j, counter, tiles,
              saved, res, runs, err, listed, output, final>>

parVars == <<wpc, wlock, lock>>

\* ------------------------------------------------------------ arithmetic helpers
Min(a, b) == IF a < b THEN a ELSE b

Max(a, b) == IF a > b THEN a ELSE b

\* int(x) / .type(torch.int) of a coordinate given in half pixels: truncation toward zero
Trunc(h) == IF h >= 0 THEN h \div 2 ELSE -((-h) \div 2)

\* indices selected by the Python slice lo:hi on an axis of length n
SliceStart(lo, n) == IF lo < 0 THEN Max(lo + n, 0) ELSE Min(lo, n)

SliceLen(lo, hi, n) == Max(0, SliceStart(hi, n) - SliceStart(lo, n))

\* boolean-mask indexing  seq[index]
RECURSIVE BoolIndex(_, _)
BoolIndex(seq, index) ==
    IF seq = <<>> THEN <<>>
    ELSE (IF Head(index) THEN <<Head(seq)>> ELSE <<>>)
         \o BoolIndex(Tail(seq), Tail(index))

\* (b[2] - b[0]) * (b[3] - b[1]), in quarter pixels
BoxArea4(b) == (b[3] - b[1]) * (b[4] - b[2])

\* mask.sum() of a [1, T, T] probability mask, in hundredths
RECURSIVE SumRow(_, _, _)
SumRow(m, r, c) == IF c < 0 THEN 0 ELSE m.p[<<r, c>>] + SumRow(m, r, c - 1)

RECURSIVE SumRows(_, _)
SumRows(m, r) == IF r < 0 THEN 0 ELSE SumRow(m, r, m.w - 1) + SumRows(m, r - 1)

MaskSum(m) == SumRows(m, m.h - 1)

\* ------------------------------------------------------------ filter_tile
\* res[key] = res[key][index] for the three keys
ApplyIndex(r, index) ==
    [scores |-> BoolIndex(r.scores, index),
     masks  |-> BoolIndex(r.masks, index),
     boxes  |-> BoolIndex(r.boxes, index)]

\* (masks[k] >= thres_mask).astype(int), then [0, int(y0):int(y1), int(x0):int(x1)]
TrimMask(m, b) ==
    LET y0 == SliceStart(Trunc(b[2]), m.h)
        x0 == SliceStart(Trunc(b[1]), m.w)
        hh == SliceLen(Trunc(b[2]), Trunc(b[4]), m.h)
        ww == SliceLen(Trunc(b[1]), Trunc(b[3]), m.w)
    IN [h |-> hh, w |-> ww,
        p |-> [q \in (0 .. hh - 1) \X (0 .. ww - 1) |->
                 IF m.p[<<y0 + q[1], x0 + q[2]>>] >= ThresMask THEN 1 ELSE 0]]

\* boxes[k][0] += j; [1] += i; [2] += j; [3] += i
ShiftBox(b, ti, tj) == <<b[1] + 2 * tj, b[2] + 2 * ti, b[3] + 2 * tj, b[4] + 2 * ti>>

TrimAndShift(r, ti, tj) ==
    [scores |-> r.scores,
     masks  |-> [k \in 1 .. Len(r.masks) |->
                   [anchor |-> <<tj, ti>>, mask |-> TrimMask(r.masks[k], r.boxes[k])]],
     boxes  |-> [k \in 1 .. Len(r.boxes) |-> ShiftBox(r.boxes[k], ti, tj)]]

filter_tile(raw, tile_area, ti, tj) ==
    LET r1 == ApplyIndex(raw, [k \in 1 .. Len(raw.scores) |->
                                 raw.scores[k] >= ThresPrediction])
        r2 == ApplyIndex(r1, [k \in 1 .. Len(r1.boxes) |->
                                 BoxArea4(r1.boxes[k]) * 100 <= ThresSize * 4 * tile_area])
        r3 == ApplyIndex(r2, [k \in 1 .. Len(r2.boxes) |->
                                 BoxArea4(r2.boxes[k]) > 4 * MinBoxArea])
        r4 == ApplyIndex(r3, [k \in 1 .. Len(r3.masks) |->
                                 MaskSum(r3.masks[k]) > 100 * MinMaskSum])
    IN IF Len(r1.boxes) = 0 THEN r1
       ELSE IF Len(r2.boxes) = 0 THEN r2
       ELSE IF Len(r3.boxes) = 0 THEN r3
       ELSE IF Len(r4.boxes) = 0 THEN r4
       ELSE TrimAndShift(r4, ti, tj)

\* ------------------------------------------------------------ the detector (external)
\* What an image can show: box in image coordinates (half pixels), score, mask
\* probability inside the box's pixel extent (inp), on the outermost pixels of the
\* extent (rim) and on the one-pixel halo around it (outp), and how far (half
\* pixels) the reported box may stick out of the tile.
ObjA == [box |-> <<2, 2, 14, 16>>, score |-> 90, inp |-> 100, rim |-> 100, outp |-> 0, slack |-> 0]

ObjB == [box |-> <<12, 14, 26, 26>>, score |-> 93, inp |-> 100, rim |-> 100, outp |-> 100, slack |-> 0]

ObjC == [box |-> <<3, 2, 15, 16>>, score |-> 85, inp |-> 100, rim |-> 80, outp |-> 40, slack |-> 0]

ObjD == [box |-> <<2, 2, 14, 14>>, score |-> 50, inp |-> 100, rim |-> 100, outp |-> 0, slack |-> 0]

ObjE == [box |-> <<2, 2, 16, 16>>, score |-> 80, inp |-> 100, rim |-> 100, outp |-> 0, slack |-> 0]

ObjF == [box |-> <<2, 2, 12, 12>>, score |-> 80, inp |-> 100, rim |-> 100, outp |-> 0, slack |-> 0]

ObjG == [box |-> <<2, 2, 14, 14>>, score |-> 80, inp |-> 50, rim |-> 50, outp |-> 0, slack |-> 0]

ObjH == [box |-> <<4, 12, 16, 24>>, score |-> 70, inp |-> 90, rim |-> 90, outp |-> 0, slack |-> 0]

ObjX == [box |-> <<14, 2, 26, 16>>, score |-> 75, inp |-> 100, rim |-> 100, outp |-> 0, slack |-> 2]

Scenes == {<<>>, <<ObjA>>, <<ObjA, ObjB>>, <<ObjC, ObjA>>, <<ObjC, ObjB>>,
           <<ObjD, ObjE, ObjF, ObjG>>, <<ObjH, ObjX>>}

\* the detector sees an object when its box lies in the tile (up to the object's slack)
InTile(o, ti, tj, T) ==
    /\ 2 * tj <= o.box[1] /\ o.box[3] <= 2 * (tj + T) + o.slack
    /\ 2 * ti <= o.box[2] /\ o.box[4] <= 2 * (ti + T) + o.slack

\* probability mask [1, T, T] of one object, in the tile's frame
ObjMask(o, ti, tj, T) ==
    LET y0 == Trunc(o.box[2]) - ti
        y1 == Trunc(o.box[4]) - ti
        x0 == Trunc(o.box[1]) - tj
        x1 == Trunc(o.box[3]) - tj
    IN [h |-> T, w |-> T,
        p |-> [q \in (0 .. T - 1) \X (0 .. T - 1) |->
                 IF y0 < q[1] /\ q[1] < y1 - 1 /\ x0 < q[2] /\ q[2] < x1 - 1 THEN o.inp
                 ELSE IF y0 <= q[1] /\ q[1] < y1 /\ x0 <= q[2] /\ q[2] < x1 THEN o.rim
                 ELSE IF y0 - 1 <= q[1] /\ q[1] < y1 + 1 /\ x0 - 1 <= q[2] /\ q[2] < x1 + 1
                      THEN o.outp
                 ELSE 0]]

\* model([tile])[0]: scores, boxes (tile-local), masks; scores vary with the tile
RECURSIVE Model(_, _, _, _)
Model(sc, ti, tj, T) ==
    IF sc = <<>> THEN [scores |-> <<>>, masks |-> <<>>, boxes |-> <<>>]
    ELSE LET o == Head(sc)
             rest == Model(Tail(sc), ti, tj, T)
         IN IF InTile(o, ti, tj, T)
            THEN [scores |-> <<o.score - (ti + 2 * tj)>> \o rest.scores,
                  masks  |-> <<ObjMask(o, ti, tj, T)>> \o rest.masks,
                  boxes  |-> <<<<o.box[1] - 2 * tj, o.box[2] - 2 * ti,
                                 o.box[3] - 2 * tj, o.box[4] - 2 * ti>>>> \o rest.boxes]
            ELSE rest

\* ------------------------------------------------------------ checkpoint store
\* save_intermediate_step: open(path, "wb") creates or overwrites the file
save_intermediate_step(dir, r, name) ==
    [dir EXCEPT !.files = [k \in DOMAIN dir.files \cup {name} |->
                             IF k = name
                             THEN [scores |-> r.scores, masks |-> r.masks, boxes |-> r.boxes]
                             ELSE dir.files[k]]]

\* ------------------------------------------------------------ tile scan
H == shape[1]

W == shape[2]

\* extract_tile_run_model_save without lock: the record is written only when non-empty
ProcessGuarded(ti, tj) ==
    LET r == filter_tile(Model(scene, ti, tj, tile_size), tile_size * tile_size, ti, tj)
    IN /\ tiles' = Append(tiles, <<ti, tj>>)
       /\ res' = [origin |-> <<ti, tj>>, r |-> r]
       /\ IF Len(r.boxes) # 0
          THEN /\ step1' = save_intermediate_step(step1, r, counter)
               /\ saved' = saved \cup {counter}
          ELSE UNCHANGED <<step1, saved>>
       /\ counter' = counter + 1

\* body of the edge passes: crop, model, filter_tile, save_intermediate_step, counter += 1
ProcessEdge(ti, tj) ==
    LET r == filter_tile(Model(scene, ti, tj, tile_size), tile_size * tile_size, ti, tj)
    IN /\ tiles' = Append(tiles, <<ti, tj>>)
       /\ res' = [origin |-> <<ti, tj>>, r |-> r]
       /\ step1' = save_intermediate_step(step1, r, counter)
       /\ saved' = saved \cup {counter}
       /\ counter' = counter + 1

runVars == <<shape, tile_size, rolling_window, scene, runs, err, listed, output, final>>

InRow == i < H /\ ~(i + tile_size > H)

InCol == j < W /\ ~(j + tile_size > W)

PrimaryTile ==
    /\ pc = "primary" /\ InRow /\ InCol
    /\ ProcessGuarded(i, j)
    /\ j' = j + rolling_window
    /\ UNCHANGED <<pc, i, runVars, parVars>>

PrimaryRowEnd ==
    /\ pc = "primary" /\ InRow /\ ~InCol
    /\ i' = i + rolling_window
    /\ j' = 0
    /\ UNCHANGED <<pc, counter, tiles, saved, res, step1, runVars, parVars>>

PrimaryEnd ==
    /\ pc = "primary" /\ ~InRow
    /\ pc' = "lastrow"
    /\ i' = 0 /\ j' = 0
    /\ UNCHANGED <<counter, tiles, saved, res, step1, runVars, parVars>>

InLastRow == H % rolling_window # 0 /\ j < W /\ ~(j + tile_size >= W)

LastRowTile ==
    /\ pc = "lastrow" /\ InLastRow
    /\ ProcessEdge(H - tile_size, j)
    /\ j' = j + rolling_window
    /\ UNCHANGED <<pc, i, runVars, parVars>>

LastRowEnd ==
    /\ pc = "lastrow" /\ ~InLastRow
    /\ pc' = "lastcol"
    /\ i' = 0 /\ j' = 0
    /\ UNCHANGED <<counter, tiles, saved, res, step1, runVars, parVars>>

InLastCol == W % rolling_window # 0 /\ i < H /\ ~(i + tile_size >= H)

LastColTile ==
    /\ pc = "lastcol" /\ InLastCol
    /\ ProcessEdge(i, W - tile_size)
    /\ i' = i + rolling_window
    /\ UNCHANGED <<pc, j, runVars, parVars>>

LastColEnd ==
    /\ pc = "lastcol" /\ ~InLastCol
    /\ pc' = "corner"
    /\ i' = 0 /\ j' = 0
    /\ UNCHANGED <<counter, tiles, saved, res, step1, runVars, parVars>>

HasCorner == H % rolling_window # 0 /\ W % rolling_window # 0

CornerTile ==
    /\ pc = "corner" /\ HasCorner
    /\ ProcessEdge(H - tile_size, W - tile_size)
    /\ pc' = "load"
    /\ UNCHANGED <<i, j, runVars, parVars>>

CornerSkip ==
    /\ pc = "corner" /\ ~HasCorner
    /\ pc' = "load"
    /\ UNCHANGED <<i, j, counter, tiles, saved, res, step1, runVars, parVars>>

NoRes == [origin |-> <<0, 0>>, r |-> [scores |-> <<>>, masks |-> <<>>, boxes |-> <<>>]]

NoOutput == [boxes |-> <<>>, scores |-> <<>>, masks |-> <<>>]

\* __main__ (makedirs of args.output) and pipeline() up to the scan: os.listdir of
\* step1 is evaluated before "or True" and before makedirs of step1
Main ==
    /\ pc \in {"idle", "done", "raised"} /\ runs < MaxRuns
    /\ runs' = runs + 1
    /\ \E sc \in Scenes : scene' = sc
    /\ i' = 0 /\ j' = 0 /\ counter' = 0
    /\ tiles' = <<>> /\ saved' = {} /\ res' = NoRes
    /\ listed' = <<>> /\ output' = NoOutput /\ final' = <<>>
    /\ IF step1.exists
       THEN pc' = "primary" /\ err' = "none"
       ELSE pc' = "raised" /\ err' = "FileNotFoundError"
    /\ UNCHANGED <<shape, tile_size, rolling_window, step1, parVars>>

\* the external model raises during a tile call: fatal, the run ends
TilePending ==
    \/ pc = "primary" /\ InRow /\ InCol
    \/ pc = "lastrow" /\ InLastRow
    \/ pc = "lastcol" /\ InLastCol
    \/ pc = "corner" /\ HasCorner

ModelFails ==
    /\ TilePending
    /\ pc' = "raised"
    /\ err' = "ModelInvocationFailure"
    /\ UNCHANGED <<shape, tile_size, rolling_window, scene, step1, i, j, counter, tiles,
                   saved, res, runs, listed, output, final, parVars>>

\* ------------------------------------------------------------ load_all_steps
Perms(S) ==
    {f \in [1 .. Cardinality(S) -> S] :
        \A a, b \in 1 .. Cardinality(S) : a # b => f[a] # f[b]}

\* records are appended in the order os.listdir names the files
RECURSIVE Concat(_, _)
Concat(dir, names) ==
    IF names = <<>> THEN NoOutput
    ELSE LET rec == dir.files[Head(names)]
             rest == Concat(dir, Tail(names))
         IN [boxes  |-> rec.boxes \o rest.boxes,
             scores |-> rec.scores \o rest.scores,
             masks  |-> rec.masks \o rest.masks]

\* torch.vstack and torch.cat raise on an empty list
load_all_steps(dir, names) ==
    LET out == Concat(dir, names)
    IN IF Len(out.boxes) = 0
       THEN [raised |-> TRUE, out |-> NoOutput]
       ELSE [raised |-> FALSE, out |-> out]

\* ------------------------------------------------------------ torchvision.ops.nms
\* scores.sort(descending, stable): positions, highest score first, ties in input order
RECURSIVE InsertDesc(_, _, _)
InsertDesc(order, k, scores) ==
    IF order = <<>> THEN <<k>>
    ELSE IF scores[Head(order)] >= scores[k]
         THEN <<Head(order)>> \o InsertDesc(Tail(order), k, scores)
         ELSE <<k>> \o order

RECURSIVE SortDesc(_, _)
SortDesc(scores, n) ==
    IF n = 0 THEN <<>> ELSE InsertDesc(SortDesc(scores, n - 1), n, scores)

\* inter / (area_a + area_b - inter) > iou_threshold
Overlaps(a, b, thr) ==
    LET iw == Max(0, Min(a[3], b[3]) - Max(a[1], b[1]))
        ih == Max(0, Min(a[4], b[4]) - Max(a[2], b[2]))
        inter == iw * ih
        union == BoxArea4(a) + BoxArea4(b) - inter
    IN union > 0 /\ 100 * inter > thr * union

RECURSIVE Greedy(_, _, _, _)
Greedy(order, boxes, thr, kept) ==
    IF order = <<>> THEN kept
    ELSE IF \E m \in 1 .. Len(kept) : Overlaps(boxes[kept[m]], boxes[Head(order)], thr)
         THEN Greedy(Tail(order), boxes, thr, kept)
         ELSE Greedy(Tail(order), boxes, thr, Append(kept, Head(order)))

nms(boxes, scores, thr) == Greedy(SortDesc(scores, Len(scores)), boxes, thr, <<>>)

\* ------------------------------------------------------------ pipeline: dedup, compose
\* output["boxes"] = output["boxes"][indexes], the same for scores
TakeIndexes(seq, indexes) == [k \in 1 .. Len(indexes) |-> seq[indexes[k]]]

\* variant: the masks are left in aggregation order while boxes and scores follow indexes
TakeMasksUnsorted(masks, indexes) == [k \in 1 .. Len(indexes) |-> masks[k]]

\* temp = [output["masks"][i] for i in indexes]
TakeMasks(masks, indexes) == [k \in 1 .. Len(indexes) |-> masks[indexes[k]]]

Deduplicate(out) ==
    LET indexes == nms(out.boxes, out.scores, ThresNms)
    IN [boxes  |-> TakeIndexes(out.boxes, indexes),
        scores |-> TakeIndexes(out.scores, indexes),
        masks  |-> TakeMasks(out.masks, indexes)]

Zeros(sh) == [q \in (0 .. sh[1] - 1) \X (0 .. sh[2] - 1) |-> 0]

\* variant: mask * i
InstanceIdFromZero(n) == n

\* value with which detection number n (from 0) is painted: mask * (i + 1)
InstanceId(n) == n + 1

\* final[y0 : y0 + h, x0 : x0 + w] += m * id, for a slice that lies inside the canvas
AddAt(canvas, y0, x0, m, id) ==
    [q \in DOMAIN canvas |->
        canvas[q] + (IF /\ y0 <= q[1] /\ q[1] < y0 + m.h
                        /\ x0 <= q[2] /\ q[2] < x0 + m.w
                     THEN id * m.p[<<q[1] - y0, q[2] - x0>>]
                     ELSE 0)]

\* mask[0:hh, 0:ww]
CropMask(m, hh, ww) ==
    LET h2 == SliceLen(0, hh, m.h)
        w2 == SliceLen(0, ww, m.w)
    IN [h |-> h2, w |-> w2, p |-> [q \in (0 .. h2 - 1) \X (0 .. w2 - 1) |-> m.p[q]]]

\* one round of the compositing loop; numpy raises when the slice of final and the
\* mask differ in shape, which is when the target leaves the canvas
PaintOne(st, sh, b, m, n) ==
    LET box == <<Trunc(b[1]), Trunc(b[2]), Trunc(b[3]), Trunc(b[4])>>
        mm  == IF box[4] - box[2] # m.h \/ box[3] - box[1] # m.w
               THEN CropMask(m, Min(m.h, box[4] - box[2]), Min(m.w, box[3] - box[1]))
               ELSE m
        inside == /\ 0 <= box[2] /\ box[2] + mm.h <= sh[1]
                  /\ 0 <= box[1] /\ box[1] + mm.w <= sh[2]
    IN IF st.raised \/ (~inside /\ mm.h > 0 /\ mm.w > 0)
       THEN [raised |-> TRUE, canvas |-> st.canvas]
       ELSE [raised |-> FALSE,
             canvas |-> AddAt(st.canvas, box[2], box[1], mm, InstanceId(n))]

\* for i in range(len(output["boxes"])): ...   (n rounds done)
RECURSIVE Compose(_, _, _)
Compose(out, sh, n) ==
    IF n = 0 THEN [raised |-> FALSE, canvas |-> Zeros(sh)]
    ELSE PaintOne(Compose(out, sh, n - 1), sh, out.boxes[n], out.masks[n].mask, n - 1)

LoadAllSteps ==
    /\ pc = "load"
    /\ \E names \in Perms(DOMAIN step1.files) :
         LET got == load_all_steps(step1, names)
         IN /\ listed' = names
            /\ output' = got.out
            /\ IF got.raised
               THEN pc' = "raised" /\ err' = "RuntimeError"
               ELSE pc' = "nms" /\ err' = err
    /\ UNCHANGED <<shape, tile_size, rolling_window, scene, step1, i, j, counter, tiles,
                   saved, res, runs, final, parVars>>

Dedup ==
    /\ pc = "nms"
    /\ output' = Deduplicate(output)
    /\ pc' = "compose"
    /\ UNCHANGED <<shape, tile_size, rolling_window, scene, step1, i, j, counter, tiles,
                   saved, res, runs, err, listed, final, parVars>>

Composite ==
    /\ pc = "compose"
    /\ LET st == Compose(output, shape, Len(output.boxes))
       IN /\ final' = st.canvas
          /\ IF st.raised
             THEN pc' = "raised" /\ err' = "ValueError"
             ELSE pc' = "done" /\ err' = err
    /\ UNCHANGED <<shape, tile_size, rolling_window, scene, step1, i, j, counter, tiles,
                   saved, res, runs, listed, output, parVars>>

\* ------------------------------------------------------------ whole program
\* the parallel mode is off: __main__ exits when args.parallel is set
InitPar0 ==
    /\ wpc = [w \in 1 .. NWorkers |-> "off"]
    /\ wlock = [w \in 1 .. NWorkers |-> FALSE]
    /\ lock = FALSE


Init ==
    /\ shape \in {<<TileSide + a, TileSide + b>> : a, b \in 0 .. MaxPad}
    /\ tile_size = TileSide
    /\ rolling_window = Stride
    /\ scene = <<>>
    /\ step1 \in {[exists |-> e, files |-> <<>>] : e \in BOOLEAN}
    /\ pc = "idle" /\ i = 0 /\ j = 0 /\ counter = 0
    /\ tiles = <<>> /\ saved = {} /\ res = NoRes
    /\ runs = 0 /\ err = "none" /\ listed = <<>> /\ output = NoOutput /\ final = <<>>
    /\ InitPar0

Next ==
    \/ Main
    \/ PrimaryTile
    \/ PrimaryRowEnd
    \/ PrimaryEnd
    \/ LastRowTile
    \/ LastRowEnd
    \/ LastColTile
    \/ LastColEnd
    \/ CornerTile
    \/ CornerSkip
    \/ ModelFails
    \/ LoadAllSteps
    \/ Dedup
    \/ Composite

Spec == Init /\ [][Next]_vars

\* ------------------------------------------------------------ scheduler sweep
InitSched ==
    /\ shape \in (1 .. MaxDim) \X (1 .. MaxDim)
    /\ tile_size \in 1 .. MaxTile
    /\ rolling_window \in 1 .. MaxStride
    /\ scene = <<>>
    /\ step1 = [exists |-> TRUE, files |-> <<>>]
    /\ pc = "primary" /\ i = 0 /\ j = 0 /\ counter = 0
    /\ tiles = <<>> /\ saved = {} /\ res = NoRes
    /\ runs = 1 /\ err = "none" /\ listed = <<>> /\ output = NoOutput /\ final = <<>>
    /\ InitPar0

SchedNext ==
    \/ PrimaryTile
    \/ PrimaryRowEnd
    \/ PrimaryEnd
    \/ LastRowTile
    \/ LastRowEnd
    \/ LastColTile
    \/ LastColEnd
    \/ CornerTile
    \/ CornerSkip

SpecSched == InitSched /\ [][SchedNext]_vars

\* ------------------------------------------------------------ claims on the scheduler
Covered(r, c) ==
    \E k \in 1 .. Len(tiles) :
        /\ tiles[k][1] <= r /\ r < tiles[k][1] + tile_size
        /\ tiles[k][2] <= c /\ c < tiles[k][2] + tile_size

\* C1: when the tile fits the image (T <= H, T <= W), the tiles of a finished scan
\* (primary sweep, bottom row, right column, corner) cover every pixel of the image.
\* Stated for strides no larger than the tile, the case most favourable to the code:
\* a stride larger than the tile leaves gaps inside the primary sweep itself.
C1_Coverage ==
    (pc = "load" /\ tile_size <= H /\ tile_size <= W /\ rolling_window <= tile_size)
        => \A r \in 0 .. H - 1 : \A c \in 0 .. W - 1 : Covered(r, c)

\* C10: every tile the scheduler emits lies inside the image.
C10_TilesInside ==
    \A k \in 1 .. Len(tiles) :
        /\ 0 <= tiles[k][1] /\ tiles[k][1] + tile_size <= H
        /\ 0 <= tiles[k][2] /\ tiles[k][2] + tile_size <= W

\* ------------------------------------------------------------ claims on the pipeline
\* C3: no record of the store holds zero detections (a record is written only for a
\* tile whose filtered set is non-empty).
C3_NoEmptyRecord ==
    \A k \in DOMAIN step1.files : Len(step1.files[k].boxes) # 0

\* C4: load_all_steps on a directory holding zero records returns normally.
C4_LoadsZeroRecords ==
    (DOMAIN step1.files = {}) => err # "RuntimeError"

\* C9: a run never ends before its scan, whatever the state of the checkpoint
\* directory at its start; here: it never ends at the os.listdir of step1.
C9_ScanReached ==
    ~(pc = "raised" /\ err = "FileNotFoundError")

\* C8: every record with detections that aggregation consumes was written by the
\* scan of the same run.
C8_OnlyOwnRecords ==
    \A k \in 1 .. Len(listed) :
        Len(step1.files[listed[k]].boxes) # 0 => listed[k] \in saved

\* a filtered set handed back to the filter: scores and boxes as they are, each
\* cropped 0/1 mask put back where it was cut out of the tile frame
Reframe(m, b, ti, tj, T) ==
    LET y0 == SliceStart(Trunc(b[2] - 2 * ti), T)
        x0 == SliceStart(Trunc(b[1] - 2 * tj), T)
    IN [h |-> T, w |-> T,
        p |-> [q \in (0 .. T - 1) \X (0 .. T - 1) |->
                 IF /\ y0 <= q[1] /\ q[1] < y0 + m.mask.h
                    /\ x0 <= q[2] /\ q[2] < x0 + m.mask.w
                 THEN 100 * m.mask.p[<<q[1] - y0, q[2] - x0>>]
                 ELSE 0]]

AsModelOutput(r, ti, tj, T) ==
    [scores |-> r.scores,
     masks  |-> [k \in 1 .. Len(r.masks) |-> Reframe(r.masks[k], r.boxes[k], ti, tj, T)],
     boxes  |-> r.boxes]

FilteredAgain ==
    filter_tile(AsModelOutput(res.r, res.origin[1], res.origin[2], tile_size),
                tile_size * tile_size, res.origin[1], res.origin[2])

\* C7: filtering a set the filter has produced (same thresholds, tile area and
\* origin) gives back the same scores and the same box coordinates.
C7_FilterIdempotent ==
    /\ FilteredAgain.scores = res.r.scores
    /\ FilteredAgain.boxes = res.r.boxes

\* file names in ascending order
RECURSIVE Ascending(_)
Ascending(S) ==
    IF S = {} THEN <<>>
    ELSE LET lo == CHOOSE x \in S : \A y \in S : x <= y
         IN <<lo>> \o Ascending(S \ {lo})

Survivors(out) ==
    {<<out.boxes[k], out.scores[k], out.masks[k].mask>> : k \in 1 .. Len(out.boxes)}

\* what the run yields when the records are read in the order names
ResultOf(names) ==
    LET d == Deduplicate(Concat(step1, names))
    IN [survivors |-> Survivors(d), canvas |-> Compose(d, shape, Len(d.boxes)).canvas]

DistinctScores ==
    LET sc == Concat(step1, listed).scores
    IN \A a, b \in 1 .. Len(sc) : a # b => sc[a] # sc[b]

\* C5 as stated: whatever order the records were read in, the surviving detections
\* and the canvas are those of reading them in ascending order.
C5_OrderIndependent ==
    pc = "done" =>
        [survivors |-> Survivors(output), canvas |-> final] = ResultOf(Ascending(DOMAIN step1.files))

\* C5 amended: the same, when no two aggregated detections have equal scores.
C5_OrderIndependentDistinct ==
    (pc = "done" /\ DistinctScores) =>
        [survivors |-> Survivors(output), canvas |-> final] = ResultOf(Ascending(DOMAIN step1.files))

\* several records with detections, read in another order than ascending, with
\* pairwise distinct scores
C5_Witness ==
    /\ pc = "done" /\ DistinctScores
    /\ Concat(step1, listed) # Concat(step1, Ascending(DOMAIN step1.files))
    /\ Len(output.boxes) >= 1

\* detection n (from 0) of the output is 1 at cell q once its cropped mask is placed
\* at the integer origin of its box
PaintedBy(n, q) ==
    LET b == output.boxes[n + 1]
        m == output.masks[n + 1].mask
        r == q[1] - Trunc(b[2])
        c == q[2] - Trunc(b[1])
    IN /\ 0 <= r /\ r < m.h /\ 0 <= c /\ c < m.w
       /\ m.p[<<r, c>>] = 1

RECURSIVE SetSum(_)
SetSum(S) == IF S = {} THEN 0 ELSE LET x == CHOOSE y \in S : TRUE IN x + SetSum(S \ {x})

\* C6: the finished canvas has the shape of the image, and each cell holds the sum
\* of n + 1 over the surviving detections n whose placed mask is 1 there.
C6_Canvas ==
    pc = "done" =>
        /\ DOMAIN final = (0 .. H - 1) \X (0 .. W - 1)
        /\ \A q \in DOMAIN final :
             final[q] = SetSum({n + 1 : n \in {x \in 0 .. Len(output.boxes) - 1 : PaintedBy(x, q)}})

\* a canvas with background, a cell of exactly one detection and a cell of two
C6_Witness ==
    /\ pc = "done" /\ Len(output.boxes) >= 2
    /\ \E q \in DOMAIN final : final[q] = 0
    /\ \E q \in DOMAIN final : PaintedBy(1, q) /\ ~PaintedBy(0, q) /\ final[q] = 2
    /\ \E q \in DOMAIN final : PaintedBy(0, q) /\ PaintedBy(1, q) /\ final[q] = 3

\* ------------------------------------------------------------ parallel mode
\* tasks of tile_extraction_part_mt: (x, y, width * x + y) for x and y in
\* range(0, tiff.shape[1], rolling_window); worker w takes task number w
GridTask(w) ==
    LET n  == (shape[2] + rolling_window - 1) \div rolling_window
        x  == ((w - 1) \div n) * rolling_window
        y  == ((w - 1) % n) * rolling_window
    IN [x |-> x, y |-> y, key |-> shape[1] * x + y]

\* extract_tile_run_model_save: crop and tensor, then the branch on needs_lock
WorkerStart(w) ==
    /\ wpc[w] = "start"
    /\ wpc' = [wpc EXCEPT ![w] = IF wlock[w] THEN "locked" ELSE "call"]
    /\ UNCHANGED <<wlock, lock, pipeVars>>

\* call_model_from_lock: lock.locked() reads the state of the lock and acquires nothing
LockLocked(w) ==
    /\ wpc[w] = "locked"
    /\ wpc' = [wpc EXCEPT ![w] = "call"]
    /\ UNCHANGED <<wlock, lock, pipeVars>>

\* model(x) is entered
ModelEnter(w) ==
    /\ wpc[w] = "call"
    /\ wpc' = [wpc EXCEPT ![w] = "model"]
    /\ UNCHANGED <<wlock, lock, pipeVars>>

\* model(x) returns
ModelReturn(w) ==
    /\ wpc[w] = "model"
    /\ wpc' = [wpc EXCEPT ![w] = IF wlock[w] THEN "release" ELSE "filter"]
    /\ UNCHANGED <<wlock, lock, pipeVars>>

\* lock.release(): RuntimeError when the lock is not held
LockRelease(w) ==
    /\ wpc[w] = "release"
    /\ IF lock
       THEN lock' = FALSE /\ wpc' = [wpc EXCEPT ![w] = "filter"]
       ELSE lock' = lock /\ wpc' = [wpc EXCEPT ![w] = "raised"]
    /\ UNCHANGED <<wlock, pipeVars>>

\* filter_tile, and save_intermediate_step when the filtered set is non-empty
WorkerFilterSave(w) ==
    /\ wpc[w] = "filter"
    /\ LET t == GridTask(w)
           r == filter_tile(Model(scene, t.x, t.y, tile_size), tile_size * tile_size, t.x, t.y)
       IN step1' = IF Len(r.boxes) # 0 THEN save_intermediate_step(step1, r, t.key)
                   ELSE step1
    /\ wpc' = [wpc EXCEPT ![w] = "done"]
    /\ UNCHANGED <<wlock, lock, shape, tile_size, rolling_window, scene, pc, i, j, counter,
                   tiles, saved, res, runs, err, listed, output, final>>

InitPar ==
    /\ shape = <<TileSide + MaxPad, TileSide + MaxPad>>
    /\ tile_size = TileSide
    /\ rolling_window = Stride
    /\ scene \in Scenes
    /\ step1 = [exists |-> TRUE, files |-> <<>>]
    /\ pc = "primary" /\ i = 0 /\ j = 0 /\ counter = 0
    /\ tiles = <<>> /\ saved = {} /\ res = NoRes
    /\ runs = 1 /\ err = "none" /\ listed = <<>> /\ output = NoOutput /\ final = <<>>
    /\ wpc = [w \in 1 .. NWorkers |-> "start"]
    /\ wlock \in [1 .. NWorkers -> BOOLEAN]
    /\ lock = FALSE

ParNext ==
    \E w \in 1 .. NWorkers :
        \/ WorkerStart(w)
        \/ LockLocked(w)
        \/ ModelEnter(w)
        \/ ModelReturn(w)
        \/ LockRelease(w)
        \/ WorkerFilterSave(w)

SpecPar == InitPar /\ [][ParNext]_vars

\* C2: at most one worker that goes through call_model_from_lock is inside model(x).
C2_OneModelCall ==
    Cardinality({w \in 1 .. NWorkers : wlock[w] /\ wpc[w] = "model"}) <= 1

====
